---- MODULE Spec2Model ----
(***************************************************************************)
(* A model of the d2l notebooks of this repository:                        *)
(*   chapter_deep-learning-computation/parameters.ipynb   (SpecParams,     *)
(*                                               SpecTied, SpecDist)       *)
(*   chapter_deep-learning-computation/custom-layer.ipynb (SpecLayer)      *)
(*   unnamed/part_000: linear regression, concise          (SpecTrain)     *)
(*   unnamed/part_000: data manipulation     (SpecTensor, SpecAnyOrder)    *)
(* A notebook is run top to bottom; a code cell is one action.  Tensors    *)
(* hold exact rationals: a matrix of integer numerators over one positive  *)
(* denominator.  Random draws (randn, the nn.init functions, the shuffle   *)
(* of the data loader) are choices from small lattices of values.          *)
(***************************************************************************)
EXTENDS Integers, Sequences, FiniteSets, TLC

VARIABLES
    pc,        \* the cell (or statement) that was run last
    net,       \* the Sequential bound to the name net: a sequence of layers
    param,     \* the parameter objects (nn.Parameter), addressed by identity
    x,         \* the input tensor x / the minibatch X
    l,         \* the loss l and the graph autograd recorded for it
    writes,    \* a counter: direct element writes, draws, or cells run out of order
    printed,   \* what the last cell printed or returned
    data,      \* features and labels of the regression dataset
    it,        \* the training loop: the epoch and the examples data_iter has left
    env,       \* data manipulation: the object each Python name is bound to
    objs,      \* data manipulation: the tensor and ndarray objects
    bufs       \* data manipulation: the memory the objects' values live in

nnvars == <<net, param, x, l>>

trainvars == <<data, it>>

ndvars == <<env, objs, bufs>>

vars == <<pc, net, param, x, l, writes, printed, data, it, env, objs, bufs>>

----------------------------------------------------------------------------
(* Sizes.  The notebooks use Linear(4, 8), Linear(8, 8), Linear(8, 1) and a *)
(* batch of 2 rows; the model keeps the architecture and shrinks the widths.*)
InDim == 1
HidDim == 2
BatchRows == 2
MaxWrites == 2
MaxLen == 5
MaxJumps == 1
NumExamples == 4
BatchSize == 2

(* Program constants. *)
TensorRows == 3
TensorCols == 4
NumInputs == 2
NumEpochs == 3
LrNum == 3
LrDen == 100

----------------------------------------------------------------------------
(* Integer and matrix arithmetic.  A matrix is a sequence of rows.          *)

Abs(a) == IF a < 0 THEN -a ELSE a

RECURSIVE GCD(_, _)
GCD(a, b) == IF b = 0 THEN Abs(a) ELSE GCD(Abs(b), Abs(a) % Abs(b))

RECURSIVE SumSeq(_)
SumSeq(s) == IF s = <<>> THEN 0 ELSE Head(s) + SumSeq(Tail(s))

Dot(a, b) == SumSeq([k \in 1..Len(a) |-> a[k] * b[k]])

Rows(m) == Len(m)

Cols(m) == Len(m[1])

Col(m, j) == [i \in 1..Rows(m) |-> m[i][j]]

Transpose(m) == [j \in 1..Cols(m) |-> Col(m, j)]

MatMul(a, b) == [i \in 1..Rows(a) |-> [j \in 1..Cols(b) |-> Dot(a[i], Col(b, j))]]

MatScale(m, k) == [i \in 1..Rows(m) |-> [j \in 1..Cols(m) |-> m[i][j] * k]]

MatAdd(a, b) == [i \in 1..Rows(a) |-> [j \in 1..Cols(a) |-> a[i][j] + b[i][j]]]

MatConst(r, c, k) == [i \in 1..r |-> [j \in 1..c |-> k]]

SumAll(m) == SumSeq([i \in 1..Rows(m) |-> SumSeq(m[i])])

Entries(m) == {m[i][j] : i \in 1..Rows(m), j \in 1..Cols(m)}

----------------------------------------------------------------------------
(* Tensors: numerators v over the denominator den.                          *)

\* the sequence s of length n, element by element
RECURSIVE SeqOf(_, _)
SeqOf(s, n) == IF n = 0 THEN <<>> ELSE Append(SeqOf(s, n - 1), s[n])

MatOf(m) == SeqOf([i \in 1..Len(m) |-> SeqOf(m[i], Len(m[i]))], Len(m))

T(v, d) == [v |-> MatOf(v), den |-> d]

RECURSIVE GCDSeq(_, _)
GCDSeq(s, g) == IF s = <<>> THEN g ELSE GCDSeq(Tail(s), GCD(g, Head(s)))

RECURSIVE GCDMat(_, _)
GCDMat(m, g) == IF m = <<>> THEN g ELSE GCDMat(Tail(m), GCDSeq(Head(m), g))

\* the same values in lowest terms
TNorm(t) ==
    LET g == GCDMat(t.v, t.den)
    IN  T([i \in 1..Rows(t.v) |-> [j \in 1..Cols(t.v) |-> t.v[i][j] \div g]], t.den \div g)

TLift(t, d) == MatScale(t.v, d \div t.den)

TAdd(a, b) ==
    LET d == (a.den \div GCD(a.den, b.den)) * b.den IN TNorm(T(MatAdd(TLift(a, d), TLift(b, d)), d))

TSub(a, b) == TAdd(a, T(MatScale(b.v, -1), b.den))

TMatMul(a, b) == TNorm(T(MatMul(a.v, b.v), a.den * b.den))

TTranspose(a) == T(Transpose(a.v), a.den)

\* a * (n / d)
TScale(a, n, d) == TNorm(T(MatScale(a.v, n), a.den * d))

TEq(a, b) == MatScale(a.v, b.den) = MatScale(b.v, a.den)

TIsZero(a) == Entries(a.v) = {0}

\* x.mean(): the mean of all elements, a 1 x 1 tensor
TMean(a) == T(<<<<SumAll(a.v)>>>>, a.den * Rows(a.v) * Cols(a.v))

\* broadcast a 1 x 1 tensor or a 1 x c row over the rows of a
TBroadcast(s, r, c) ==
    T([i \in 1..r |-> [j \in 1..c |-> s.v[1][IF Cols(s.v) = 1 THEN 1 ELSE j]]], s.den)

TColSums(a) == T(<<[j \in 1..Cols(a.v) |-> SumSeq(Col(a.v, j))]>>, a.den)

----------------------------------------------------------------------------
(* Random draws.  A draw fills a tensor from a lattice of values, starting  *)
(* at the position the generator's seed gives.                              *)

Draw(lattice, seed, off, r, c) ==
    [i \in 1..r |-> [j \in 1..c |->
        lattice[((seed + off + (i - 1) * c + (j - 1)) % Len(lattice)) + 1]]]

Seeds(lattice) == 0..(Len(lattice) - 1)

\* nn.Linear's default initialisation, on a lattice of small integers
DefaultLattice == <<-1, 0, 1>>

\* nn.init.normal_(mean=0, std=0.01): values in hundredths
NormalLattice == <<-1, 0, 1>>

\* torch.randn
RandnLattice == <<-1, 0, 1, 2>>

\* torch.rand: values of [0, 1), in quarters
RandLattice == <<0, 1, 2, 3>>

\* torch.FloatTensor([1, 2, 3, 4, 5]) and its rotations
FloatLattice == <<1, 2, 3, 4, 5>>

\* nn.init.xavier_uniform_
XavierLattice == <<-1, 0, 1>>

\* nn.init.uniform_(lo, hi): [lo, hi) cut into hi - lo cells of equal
\* probability, a cell stood for by its midpoint; the values are in halves
UniformLattice(lo, hi) == [k \in 1..(hi - lo) |-> 2 * (lo + k - 1) + 1]

Randn(seed, r, c) == T(Draw(RandnLattice, seed, 0, r, c), 1)

----------------------------------------------------------------------------
(* Parameters and layers.  A layer names its parameters by identity: two    *)
(* layers with the same w hold the same weight object.                      *)

NoGrad == T(<<>>, 0)

NoLoss == [acts |-> <<>>, y |-> T(<<>>, 0), rg |-> FALSE, layers |-> <<>>]

Parameter(t, by) == [data |-> t, grad |-> NoGrad, init |-> by]

Linear(w, b) == [kind |-> "Linear", w |-> w, b |-> b]

MyLinear(w, b) == [kind |-> "MyLinear", w |-> w, b |-> b]

ReLU == [kind |-> "ReLU", w |-> 0, b |-> 0]

CenteredLayer == [kind |-> "CenteredLayer", w |-> 0, b |-> 0]

\* net[i], with Python's indices
Layer(n, i) == n[i + 1]

\* the parameters of nn.Linear(in, out): weight of shape (out, in), bias of shape (out)
LinearParams(seed, in, out) ==
    << Parameter(T(Draw(DefaultLattice, seed, 0, out, in), 1), "default"),
       Parameter(T(Draw(DefaultLattice, seed, out * in, 1, out), 1), "default") >>

\* the parameters of MyLinear(in_units, units): torch.randn(in_units, units)
\* and torch.randn(units,)
MyLinearParams(seed, in, units) ==
    << Parameter(Randn(seed, in, units), "randn"),
       Parameter(T(Draw(RandnLattice, seed, in * units, 1, units), 1), "randn") >>

HasParams(lay) == lay.kind \in {"Linear", "MyLinear"}

ParamIds(n) == UNION {{n[k].w, n[k].b} : k \in {k \in 1..Len(n) : HasParams(n[k])}}

----------------------------------------------------------------------------
(* Forward passes.                                                          *)

TRelu(a) ==
    T([i \in 1..Rows(a.v) |-> [j \in 1..Cols(a.v) |->
        IF a.v[i][j] > 0 THEN a.v[i][j] ELSE 0]], a.den)

TAddRow(a, row) == TAdd(a, TBroadcast(row, Rows(a.v), Cols(a.v)))

\* nn.Linear.forward: x W^T + b
LinearForward(P, lay, xin) ==
    TAddRow(TMatMul(xin, TTranspose(P[lay.w].data)), P[lay.b].data)

\* MyLinear.forward: torch.matmul(x, self.weight.data) + self.bias.data
MyLinearForward(P, lay, xin) ==
    TAddRow(TMatMul(xin, P[lay.w].data), P[lay.b].data)

\* faulty variant: the sum in place of the mean
CenteredForwardSum(xin) ==
    TSub(xin, TBroadcast(T(<<<<SumAll(xin.v)>>>>, xin.den), Rows(xin.v), Cols(xin.v)))

\* CenteredLayer.forward: x - x.mean()
CenteredForward(xin) ==
    TSub(xin, TBroadcast(TMean(xin), Rows(xin.v), Cols(xin.v)))

LayerForward(P, lay, xin) ==
    CASE lay.kind = "Linear" -> LinearForward(P, lay, xin)
      [] lay.kind = "MyLinear" -> MyLinearForward(P, lay, xin)
      [] lay.kind = "ReLU" -> TRelu(xin)
      [] lay.kind = "CenteredLayer" -> CenteredForward(xin)

\* Sequential.forward, layer by layer: acts[k] is the input of the k-th layer
\* and the last element is the output
RECURSIVE ActsFrom(_, _, _)
ActsFrom(P, layers, acts) ==
    IF Len(acts) = Len(layers) + 1 THEN acts
    ELSE ActsFrom(P, layers,
                  Append(acts, LayerForward(P, layers[Len(acts)], acts[Len(acts)])))

Acts(P, layers, xin) == ActsFrom(P, layers, <<xin>>)

Output(acts) == acts[Len(acts)]

\* Does the output require grad?  The input does not; nn.Linear uses its
\* Parameters, MyLinear only their .data, which is detached from the graph.
RequiresGrad(layers) == \E k \in 1..Len(layers) : layers[k].kind = "Linear"

\* l = loss(net(X), y)
LossOf(P, layers, xin, y) ==
    [acts |-> Acts(P, layers, xin), y |-> y, rg |-> RequiresGrad(layers),
     layers |-> layers]

----------------------------------------------------------------------------
(* Backward pass.                                                           *)

\* nn.MSELoss: the gradient of mean((out - y)^2) with respect to out
MSEGrad(out, y) == TScale(TSub(out, y), 2, Rows(out.v) * Cols(out.v))

TMask(g, xin) ==
    T([i \in 1..Rows(g.v) |-> [j \in 1..Cols(g.v) |->
        IF xin.v[i][j] > 0 THEN g.v[i][j] ELSE 0]], g.den)

\* the gradient with respect to a layer's input, given that of its output
LayerBackInput(P, lay, xin, g) ==
    CASE lay.kind = "Linear" -> TMatMul(g, P[lay.w].data)
      [] lay.kind = "MyLinear" -> TMatMul(g, TTranspose(P[lay.w].data))
      [] lay.kind = "ReLU" -> TMask(g, xin)
      [] lay.kind = "CenteredLayer" ->
            TSub(g, TBroadcast(TMean(g), Rows(g.v), Cols(g.v)))

\* faulty variant: the gradient replaces the one the parameter holds
AccumulateOverwrite(P, id, g) == [P EXCEPT ![id].grad = g]

\* AccumulateGrad: a gradient is added to the one the parameter holds
Accumulate(P, id, g) ==
    [P EXCEPT ![id].grad = IF @.den = 0 THEN g ELSE TAdd(@, g)]

\* one use of a layer: what it adds to its weight and to its bias
WeightGrad(xin, g) == TMatMul(TTranspose(g), xin)

BiasGrad(g) == TColSums(g)

\* the gradients with respect to the outputs of the layers, from the last
\* layer back: gs holds those of the layers n - Len(gs) + 1 .. n
RECURSIVE GradsFrom(_, _, _)
GradsFrom(P, ls, gs) ==
    LET k == Len(ls.layers) - Len(gs) + 1
    IN  IF k = 1 THEN gs
        ELSE GradsFrom(P, ls,
                       <<LayerBackInput(P, ls.layers[k], ls.acts[k], gs[1])>> \o gs)

OutGrads(P, ls) == GradsFrom(P, ls, <<MSEGrad(Output(ls.acts), ls.y)>>)

\* the gradient with respect to the output of the k-th layer
GradOut(P, ls, k) == OutGrads(P, ls)[k]

\* l.backward(): from the k-th layer down to the first, every nn.Linear adds
\* to the gradients of its weight and its bias
RECURSIVE BackpropFrom(_, _, _, _)
BackpropFrom(P, ls, gs, k) ==
    IF k = 0 \/ P = <<>> THEN P
    ELSE LET lay == ls.layers[k]
         IN  BackpropFrom(IF lay.kind = "Linear"
                          THEN Accumulate(Accumulate(P, lay.w, WeightGrad(ls.acts[k], gs[k])),
                                          lay.b, BiasGrad(gs[k]))
                          ELSE P,
                          ls, gs, k - 1)

----------------------------------------------------------------------------
(* torch.nn.init and direct writes to .data                                 *)

Shape(p) == <<Rows(p.data.v), Cols(p.data.v)>>

Normal_(p, seed) ==
    [p EXCEPT !.data = T(Draw(NormalLattice, seed, 0, Shape(p)[1], Shape(p)[2]), 100),
              !.init = "normal_"]

Zeros_(p) ==
    [p EXCEPT !.data = T(MatConst(Shape(p)[1], Shape(p)[2], 0), 1), !.init = "zeros_"]

Constant_(p, val) ==
    [p EXCEPT !.data = T(MatConst(Shape(p)[1], Shape(p)[2], val), 1),
              !.init = "constant_"]

XavierUniform_(p, seed) ==
    [p EXCEPT !.data = T(Draw(XavierLattice, seed, 0, Shape(p)[1], Shape(p)[2]), 1),
              !.init = "xavier_uniform_"]

Uniform_(p, lo, hi, seed) ==
    [p EXCEPT !.data = T(Draw(UniformLattice(lo, hi), seed, 0, Shape(p)[1], Shape(p)[2]), 2),
              !.init = "uniform_"]

\* faulty variant: the mask without abs(), t *= (t >= k)
MaskGe(t, k) ==
    T([i \in 1..Rows(t.v) |-> [j \in 1..Cols(t.v) |->
        IF t.v[i][j] >= k * t.den THEN t.v[i][j] ELSE 0]], t.den)

\* t *= (t.abs() >= k)
MaskAbsGe(t, k) ==
    T([i \in 1..Rows(t.v) |-> [j \in 1..Cols(t.v) |->
        IF Abs(t.v[i][j]) >= k * t.den THEN t.v[i][j] ELSE 0]], t.den)

\* t[i, j] = val, with Python's indices
SetItem(t, i, j, val) == T([t.v EXCEPT ![i + 1][j + 1] = val * t.den], t.den)

\* t[:] += k
AddScalar(t, k) == TAdd(t, T(MatConst(Rows(t.v), Cols(t.v), k), 1))

\* Module.apply(fn): fn is called on every layer in turn (and on the
\* Sequential itself, which is no nn.Linear)
\* one seed for every layer that has parameters to draw
RECURSIVE SeedSeqs(_, _)
SeedSeqs(layers, S) ==
    IF layers = <<>> THEN {<<>>}
    ELSE {<<a>> \o t : a \in (IF HasParams(Head(layers)) THEN S ELSE {0}),
                        t \in SeedSeqs(Tail(layers), S)}

----------------------------------------------------------------------------
(* parameters.ipynb                                                         *)

\* cell 1: net = nn.Sequential(nn.Linear(4, 8), nn.ReLU(), nn.Linear(8, 1))
MLPLayers == <<Linear(1, 2), ReLU, Linear(3, 4)>>

MLPParams(s0, s2) == LinearParams(s0, InDim, HidDim) \o LinearParams(s2, HidDim, 1)

\* cell 10: init_normal
InitNormal(m, P, seed) ==
    IF m.kind = "Linear"
    THEN [P EXCEPT ![Layer(net, 0).w] = Normal_(@, seed),
                   ![Layer(net, 0).b] = Zeros_(@)]
    ELSE P

\* cell 11: init_normal, redefined
InitConstant(m, P, seed) ==
    IF m.kind = "Linear"
    THEN [P EXCEPT ![Layer(net, 0).w] = Constant_(@, 1),
                   ![Layer(net, 0).b] = Zeros_(@)]
    ELSE P

\* cell 12: xavier and init_42
Xavier(m, P, seed) ==
    IF m.kind = "Linear" THEN [P EXCEPT ![m.w] = XavierUniform_(@, seed)] ELSE P

Init42(m, P, seed) ==
    IF m.kind = "Linear" THEN [P EXCEPT ![m.w] = Constant_(@, 42)] ELSE P

\* faulty variant: my_init written like init_normal above: net[0] in place of m
MyInitNet0(m, P, seed) ==
    IF m.kind = "Linear"
    THEN LET u == Uniform_(P[Layer(net, 0).w], -10, 10, seed)
         IN  [P EXCEPT ![Layer(net, 0).w] = [u EXCEPT !.data = MaskAbsGe(u.data, 5)]]
    ELSE P

\* cell 13: my_init
MyInit(m, P, seed) ==
    IF m.kind = "Linear"
    THEN LET u == Uniform_(P[m.w], -10, 10, seed)
         IN  [P EXCEPT ![m.w] = [u EXCEPT !.data = MaskAbsGe(u.data, 5)]]
    ELSE P

\* fn(m), for the functions the notebook hands to apply
Call(fn, m, P, seed) ==
    CASE fn = "init_normal" -> InitNormal(m, P, seed)
      [] fn = "init_constant" -> InitConstant(m, P, seed)
      [] fn = "xavier" -> Xavier(m, P, seed)
      [] fn = "init_42" -> Init42(m, P, seed)
      [] fn = "my_init" -> MyInit(m, P, seed)

RECURSIVE ApplyFrom(_, _, _, _, _)
ApplyFrom(fn, layers, P, seeds, k) ==
    IF k > Len(layers) THEN P
    ELSE ApplyFrom(fn, layers, Call(fn, layers[k], P, seeds[k]), seeds, k + 1)

\* Module.apply(fn): fn is called on every layer in turn
ApplyAll(fn, layers, P, seeds) == ApplyFrom(fn, layers, P, seeds, 1)

\* faulty variant: the layer at position 4 is a copy of shared, with equal values
TiedNetCopied(s0, ss, s6) ==
    [net |-> <<Linear(1, 2), ReLU, Linear(3, 4), ReLU, Linear(7, 8), ReLU, Linear(5, 6)>>,
     param |-> LinearParams(s0, InDim, HidDim) \o LinearParams(ss, HidDim, HidDim)
                \o LinearParams(s6, HidDim, 1) \o LinearParams(ss, HidDim, HidDim)]

\* cell 15: shared = nn.Linear(8, 8); net = nn.Sequential(..., shared, ..., shared, ...)
TiedNet(s0, ss, s6) ==
    [net |-> <<Linear(1, 2), ReLU, Linear(3, 4), ReLU, Linear(3, 4), ReLU, Linear(5, 6)>>,
     param |-> LinearParams(s0, InDim, HidDim) \o LinearParams(ss, HidDim, HidDim)
                \o LinearParams(s6, HidDim, 1)]

\* a[0] == b[0]: elementwise comparison of the first rows
RowEq(a, b) == [j \in 1..Cols(a.v) |-> a.v[1][j] * b.den = b.v[1][j] * a.den]

NoTensor == T(<<>>, 0)

\* the variables of the other notebooks, which this one never touches
TrainIdle ==
    /\ data = [features |-> NoTensor, labels |-> NoTensor]
    /\ it = [epoch |-> 0, remaining |-> {}]

NdIdle == env = <<>> /\ objs = <<>> /\ bufs = <<>>

ParamsInit ==
    /\ \E s0, s2 \in Seeds(DefaultLattice), sx \in Seeds(RandnLattice) :
          /\ param = MLPParams(s0, s2)
          /\ x = Randn(sx, BatchRows, InDim)
    /\ net = MLPLayers
    /\ pc = "cell1"
    /\ l = NoLoss
    /\ writes = 0
    /\ printed = <<>>
    /\ TrainIdle
    /\ NdIdle

ApplyInitNormal ==
    /\ pc = "cell1"
    /\ \E seeds \in SeedSeqs(net, Seeds(NormalLattice)) :
          param' = ApplyAll("init_normal", net, param, seeds)
    /\ pc' = "cell10"
    /\ UNCHANGED <<net, x, l, writes, printed, trainvars, ndvars>>

ApplyInitConstant ==
    /\ pc = "cell10"
    /\ param' = ApplyAll("init_constant", net, param, [k \in 1..Len(net) |-> 0])
    /\ pc' = "cell11"
    /\ UNCHANGED <<net, x, l, writes, printed, trainvars, ndvars>>

ApplyXavierAnd42 ==
    /\ pc = "cell11"
    /\ \E seed \in Seeds(XavierLattice) :
          param' = ApplyAll("init_42", <<Layer(net, 2)>>,
                            ApplyAll("xavier", <<Layer(net, 0)>>, param, <<seed>>), <<0>>)
    /\ pc' = "cell12"
    /\ UNCHANGED <<net, x, l, writes, printed, trainvars, ndvars>>

ApplyMyInit ==
    /\ pc = "cell12"
    /\ \E seeds \in SeedSeqs(net, Seeds(UniformLattice(-10, 10))) :
          param' = ApplyAll("my_init", net, param, seeds)
    /\ pc' = "cell13"
    /\ UNCHANGED <<net, x, l, writes, printed, trainvars, ndvars>>

\* cell 14: net[0].weight.data[:] += 1; net[0].weight.data[0, 0] = 42
SetDirectly ==
    /\ pc = "cell13"
    /\ param' = [param EXCEPT ![Layer(net, 0).w].data = SetItem(AddScalar(@, 1), 0, 0, 42)]
    /\ pc' = "cell14"
    /\ UNCHANGED <<net, x, l, writes, printed, trainvars, ndvars>>

\* cell 15: the tied network, the two comparisons and the write between them
TiedCellRun(s0, ss, s6) ==
    LET t == TiedNet(s0, ss, s6)
        w2 == Layer(t.net, 2).w
        w4 == Layer(t.net, 4).w
        P2 == [t.param EXCEPT ![w2].data = SetItem(@, 0, 0, 100)]
    IN  [net |-> t.net, param |-> P2,
         printed |-> << RowEq(t.param[w2].data, t.param[w4].data),
                        RowEq(P2[w2].data, P2[w4].data) >>]

TiedCell ==
    /\ pc = "cell14"
    /\ \E s0, ss, s6 \in Seeds(DefaultLattice) :
          LET r == TiedCellRun(s0, ss, s6)
          IN  net' = r.net /\ param' = r.param /\ printed' = r.printed
    /\ pc' = "cell15"
    /\ UNCHANGED <<x, l, writes, trainvars, ndvars>>

\* net[pos].weight.data[i, j] = val, through either position of the shared layer
WriteData ==
    /\ pc = "cell15"
    /\ writes < MaxWrites
    /\ \E pos \in {2, 4}, i \in 0..(HidDim - 1), j \in 0..(HidDim - 1), val \in {-1, 3} :
          param' = [param EXCEPT ![Layer(net, pos).w].data = SetItem(@, i, j, val)]
    /\ writes' = writes + 1
    /\ UNCHANGED <<pc, net, x, l, printed, trainvars, ndvars>>

ParamsNext ==
    \/ ApplyInitNormal
    \/ ApplyInitConstant
    \/ ApplyXavierAnd42
    \/ ApplyMyInit
    \/ SetDirectly
    \/ TiedCell
    \/ WriteData

SpecParams == ParamsInit /\ [][ParamsNext]_vars

----------------------------------------------------------------------------
(* One iteration of training, as in the loop of the linear regression       *)
(* notebook: l = loss(net(X), y); trainer.zero_grad(); l.backward();        *)
(* trainer.step().                                                          *)

\* a value stored in a parameter keeps three decimals
Round(t) ==
    IF 1000 % t.den = 0 THEN t
    ELSE T([i \in 1..Rows(t.v) |-> [j \in 1..Cols(t.v) |->
              (t.v[i][j] \div t.den) * 1000 + ((t.v[i][j] % t.den) * 1000) \div t.den]],
           1000)

\* faulty variant: the gradients are left as they are
ZeroGradSkip(P) == P

\* trainer.zero_grad(): a gradient that exists is set to zero
ZeroGradOp(P) ==
    [p \in 1..Len(P) |->
        IF P[p].grad.den = 0 THEN P[p] ELSE [P[p] EXCEPT !.grad = T(MatConst(Rows(@.v), Cols(@.v), 0), 1)]]

\* trainer.step(), torch.optim.SGD: p -= lr * p.grad, for the parameters that have a gradient
SGDStep(P) ==
    [p \in 1..Len(P) |->
        IF P[p].grad.den = 0 THEN P[p]
        ELSE [P[p] EXCEPT !.data = Round(TSub(@, TScale(P[p].grad, LrNum, LrDen)))]]

\* l = loss(net(x), y), for labels y of the shape of the output
ForwardX ==
    /\ pc \in {"tied", "cell4", "cell8"}
    /\ \E sy \in Seeds(RandnLattice) :
          LET out == Output(Acts(param, net, x))
          IN  l' = LossOf(param, net, x, Randn(sy, Rows(out.v), Cols(out.v)))
    /\ pc' = "forward"
    /\ UNCHANGED <<net, param, x, writes, printed, trainvars, ndvars>>

ZeroGrad ==
    /\ pc = "forward"
    /\ param' = ZeroGradOp(param)
    /\ pc' = "zero_grad"
    /\ UNCHANGED <<net, x, l, writes, printed, trainvars, ndvars>>

\* l.backward(): a loss that does not require grad raises RuntimeError
Backward ==
    /\ pc = "zero_grad"
    /\ IF l.rg
       THEN param' = BackpropFrom(param, l, OutGrads(param, l), Len(l.layers)) /\ pc' = "backward"
       ELSE param' = param /\ pc' = "RuntimeError"
    /\ UNCHANGED <<net, x, l, writes, printed, trainvars, ndvars>>

Step ==
    /\ pc = "backward"
    /\ param' = SGDStep(param)
    /\ pc' = "step"
    /\ UNCHANGED <<net, x, l, writes, printed, trainvars, ndvars>>

----------------------------------------------------------------------------
(* parameters.ipynb, continued: a backward pass through the tied network    *)

\* the tied network as built, after net(x) and before the write of 100
TiedInit ==
    /\ \E s0, ss, s6 \in Seeds(DefaultLattice), sx \in Seeds(RandnLattice) :
          LET t == TiedNet(s0, ss, s6)
          IN  /\ net = t.net /\ param = t.param
              /\ x = Randn(sx, BatchRows, InDim)
    /\ pc = "tied"
    /\ printed = <<>>
    /\ l = NoLoss
    /\ writes = 0
    /\ TrainIdle
    /\ NdIdle

TiedNext == ForwardX \/ ZeroGrad \/ Backward

SpecTied == TiedInit /\ [][TiedNext]_vars

----------------------------------------------------------------------------
(* Properties of parameters.ipynb                                           *)

LinearLayers(n) == {k \in 1..Len(n) : n[k].kind = "Linear"}

Weight(pos) == param[Layer(net, pos).w].data

\* C1: in the network with shared at positions 2 and 4, net[2].weight and
\* net[4].weight are the same parameter: whatever was written through either
\* position, every element read through one equals the one read through the
\* other, and the comparison the cell prints after its write is all True.
C1_TiedSameObject ==
    pc = "cell15" =>
        /\ \A i \in 1..HidDim, j \in 1..HidDim :
              Weight(2).v[i][j] * Weight(4).den = Weight(4).v[i][j] * Weight(2).den
        /\ \A j \in 1..HidDim : printed[2][j]

C1_Witness ==
    /\ pc = "cell15"
    /\ writes = MaxWrites
    /\ Weight(4).v[1][1] = 100
    /\ \E i \in 1..HidDim, j \in 1..HidDim : Weight(2).v[i][j] = 3

\* C3: after net.apply(init_normal) with the Gaussian init_normal, the weight of
\* every Linear layer of net was written by normal_ and every bias entry is 0.
C3_AllLinearGaussian ==
    pc = "cell10" =>
        \A k \in LinearLayers(net) :
            /\ param[net[k].w].init = "normal_"
            /\ Entries(param[net[k].b].data.v) = {0}

\* C4: after net.apply(init_normal) with the constant init_normal, every entry
\* of every weight and bias of every Linear layer of net equals 1.
C4_AllParametersOne ==
    pc = "cell11" =>
        \A k \in LinearLayers(net) :
            /\ Entries(param[net[k].w].data.v) = {param[net[k].w].data.den}
            /\ Entries(param[net[k].b].data.v) = {param[net[k].b].data.den}

InSupport(v, den) ==
    \/ v = 0
    \/ 5 * den <= v /\ v <= 10 * den
    \/ -10 * den <= v /\ v <= -5 * den

\* C10: after net.apply(my_init), every weight entry of every Linear layer is
\* 0 or lies in [5, 10] or in [-10, -5].
C10_MyInitSupport ==
    pc = "cell13" =>
        \A k \in LinearLayers(net) :
            \A v \in Entries(param[net[k].w].data.v) :
                InSupport(v, param[net[k].w].data.den)

C10_Witness ==
    /\ pc = "cell13"
    /\ param[Layer(net, 0).w].init = "uniform_"
    /\ 0 \in Entries(Weight(0).v)
    /\ \E v \in Entries(Weight(2).v) : v = 11 \/ v = -11
    /\ \E v \in Entries(Weight(2).v) : v < -11

\* the gradient one use of the layer at position pos adds to its weight / bias
UseWeightGrad(pos) == WeightGrad(l.acts[pos + 1], GradOut(param, l, pos + 1))

UseBiasGrad(pos) == BiasGrad(GradOut(param, l, pos + 1))

\* C6: after one backward pass through the tied network, the gradient of the
\* shared weight (bias) is the sum of what its use at position 2 and its use at
\* position 4 contribute.
C6_TiedGradientsAdd ==
    pc = "backward" =>
        /\ TEq(param[Layer(net, 2).w].grad, TAdd(UseWeightGrad(2), UseWeightGrad(4)))
        /\ TEq(param[Layer(net, 2).b].grad, TAdd(UseBiasGrad(2), UseBiasGrad(4)))

C6_Witness ==
    /\ pc = "backward"
    /\ Layer(net, 2).w = Layer(net, 4).w
    /\ ~TIsZero(UseWeightGrad(2))
    /\ ~TIsZero(UseWeightGrad(4))
    /\ ~TIsZero(UseBiasGrad(2))

----------------------------------------------------------------------------
(* custom-layer.ipynb                                                       *)

LayerInit ==
    /\ pc = "cell1"
    /\ net = <<>>
    /\ param = <<>>
    /\ x = NoTensor
    /\ l = NoLoss
    /\ writes = 0
    /\ printed = <<>>
    /\ TrainIdle
    /\ NdIdle

\* cell 2: layer = CenteredLayer(); layer(torch.FloatTensor([1, 2, 3, 4, 5]))
CenteredCell ==
    /\ pc = "cell1"
    /\ \E n \in 1..MaxLen, seed \in Seeds(FloatLattice) :
          /\ x' = T(Draw(FloatLattice, seed, 0, 1, n), 1)
          /\ printed' = <<CenteredForward(x')>>
    /\ pc' = "cell2"
    /\ UNCHANGED <<net, param, l, writes, trainvars, ndvars>>

\* cell 3: net = nn.Sequential(nn.Linear(8, 128), CenteredLayer())
CenteredNetCell ==
    /\ pc = "cell2"
    /\ net' = <<Linear(1, 2), CenteredLayer>>
    /\ \E seed \in Seeds(DefaultLattice) : param' = LinearParams(seed, InDim, HidDim)
    /\ pc' = "cell3"
    /\ UNCHANGED <<x, l, writes, printed, trainvars, ndvars>>

\* cell 4: y = net(torch.rand(4, 8)); y.mean()
SanityCell ==
    /\ pc = "cell3"
    /\ \E seed \in Seeds(RandLattice) :
          /\ x' = T(Draw(RandLattice, seed, 0, BatchRows, InDim), 4)
          /\ LET y == Output(Acts(param, net, x')) IN printed' = <<y, TMean(y)>>
    /\ pc' = "cell4"
    /\ UNCHANGED <<net, param, l, writes, trainvars, ndvars>>

\* cell 8: net = nn.Sequential(MyLinear(64, 8), nn.ReLU(), MyLinear(8, 1));
\* net(torch.randn(2, 64))
MyLinearNetCell ==
    /\ pc = "cell4"
    /\ net' = <<MyLinear(1, 2), ReLU, MyLinear(3, 4)>>
    /\ \E s0, s2, sx \in Seeds(RandnLattice) :
          /\ param' = MyLinearParams(s0, InDim, HidDim) \o MyLinearParams(s2, HidDim, 1)
          /\ x' = Randn(sx, BatchRows, InDim)
    /\ printed' = <<Output(Acts(param', net', x'))>>
    /\ pc' = "cell8"
    /\ UNCHANGED <<l, writes, trainvars, ndvars>>

LayerNext ==
    \/ CenteredCell
    \/ CenteredNetCell
    \/ SanityCell
    \/ MyLinearNetCell
    \/ ForwardX
    \/ ZeroGrad
    \/ Backward
    \/ Step

SpecLayer == LayerInit /\ [][LayerNext]_vars

HasMyLinear(n) == \E k \in 1..Len(n) : n[k].kind = "MyLinear"

\* C2: in a network of MyLinear layers, the backward pass gives every weight
\* and bias a gradient, and the optimizer step then updates each of them by
\* lr times that gradient, as it does for nn.Linear.
C2_MyLinearIsTrained ==
    [][HasMyLinear(net) =>
         /\ pc = "zero_grad" =>
               /\ pc' = "backward"
               /\ \A p \in ParamIds(net) : param'[p].grad.den # 0
         /\ pc = "backward" =>
               \A p \in ParamIds(net) :
                   /\ param[p].grad.den # 0
                   /\ TEq(param'[p].data,
                          Round(TSub(param[p].data, TScale(param[p].grad, LrNum, LrDen))))
      ]_vars

C2_Witness == HasMyLinear(net) /\ pc = "RuntimeError"

\* out is xin with the mean of xin subtracted from every element
CenteredOf(xin, out) ==
    LET n == Rows(xin.v) * Cols(xin.v)
    IN  /\ Rows(out.v) = Rows(xin.v)
        /\ Cols(out.v) = Cols(xin.v)
        /\ \A i \in 1..Rows(xin.v), j \in 1..Cols(xin.v) :
              out.v[i][j] * xin.den * n = out.den * (xin.v[i][j] * n - SumAll(xin.v))
        /\ SumAll(out.v) = 0

\* C5: the output of CenteredLayer, alone or as the last layer of a network,
\* has the shape of its input, every element is the input's less the mean of
\* the input, and its mean is exactly 0.
C5_CenteredZeroMean ==
    /\ pc = "cell2" => CenteredOf(x, printed[1])
    /\ pc = "cell4" =>
          /\ CenteredOf(LinearForward(param, Layer(net, 0), x), printed[1])
          /\ printed[2].v = <<<<0>>>>

C5_Witness ==
    /\ pc = "cell4"
    /\ ~TIsZero(printed[1])
    /\ printed[1].den > 1

----------------------------------------------------------------------------
(* part_000: linear regression, concise implementation                      *)

\* d2l.synthetic_data(true_w, true_b, n): y = X w + b + noise, with
\* true_w = [2, -3.4] and true_b = 4.2
SyntheticData(seed, n) ==
    LET X == Randn(seed, n, NumInputs)
        noise == T(Draw(NormalLattice, seed, n * NumInputs, n, 1), 100)
        y == TAdd(TAddRow(TMatMul(X, T(<<<<20>>, <<-34>>>>, 10)), T(<<<<42>>>>, 10)), noise)
    IN  [features |-> X, labels |-> y]

\* net[0].weight.data.uniform_(0.0, 0.01), in thousandths
SmallUniformLattice == <<0, 5>>

RECURSIVE Pick(_, _, _)
Pick(m, B, k) ==
    IF k > Len(m) THEN <<>>
    ELSE (IF k \in B THEN <<m[k]>> ELSE <<>>) \o Pick(m, B, k + 1)

\* the rows of a minibatch
Batch(t, B) == T(Pick(t.v, B, 1), t.den)

\* the value of nn.MSELoss
MSEValue(out, y) ==
    LET e == TSub(out, y)
    IN  TNorm(T(<<<<SumAll([i \in 1..Rows(e.v) |-> [j \in 1..Cols(e.v) |->
                                e.v[i][j] * e.v[i][j]]])>>>>,
                e.den * e.den * Rows(e.v) * Cols(e.v)))

TrainInit ==
    /\ \E sf \in {0, 1}, sw \in Seeds(SmallUniformLattice) :
          /\ data = SyntheticData(sf, NumExamples)
          /\ param = << Parameter(T(Draw(SmallUniformLattice, sw, 0, 1, NumInputs), 1000),
                                  "uniform_"),
                        Parameter(T(<<<<0>>>>, 1), "fill_") >>
    /\ net = <<Linear(1, 2)>>
    /\ it = [epoch |-> 1, remaining |-> 1..NumExamples]
    /\ pc = "loop"
    /\ x = NoTensor
    /\ l = NoLoss
    /\ writes = 0
    /\ printed = <<>>
    /\ NdIdle

\* for X, y in data_iter: l = loss(net(X), y)
TrainForward ==
    /\ pc \in {"loop", "step"}
    /\ it.remaining # {}
    /\ \E B \in SUBSET it.remaining :
          /\ Cardinality(B) = IF BatchSize < Cardinality(it.remaining)
                              THEN BatchSize ELSE Cardinality(it.remaining)
          /\ x' = Batch(data.features, B)
          /\ l' = LossOf(param, net, x', Batch(data.labels, B))
          /\ it' = [it EXCEPT !.remaining = @ \ B]
    /\ pc' = "forward"
    /\ UNCHANGED <<net, param, writes, printed, data, ndvars>>

\* after the minibatches of an epoch: l = loss(net(features), labels); print
EpochEnd ==
    /\ pc = "step"
    /\ it.remaining = {}
    /\ l' = LossOf(param, net, data.features, data.labels)
    /\ printed' = <<it.epoch, MSEValue(Output(l'.acts), data.labels)>>
    /\ IF it.epoch < NumEpochs
       THEN it' = [epoch |-> it.epoch + 1, remaining |-> 1..NumExamples] /\ pc' = "loop"
       ELSE it' = it /\ pc' = "done"
    /\ UNCHANGED <<net, param, x, writes, data, ndvars>>

TrainNext ==
    \/ TrainForward
    \/ ZeroGrad
    \/ Backward
    \/ Step
    \/ EpochEnd

SpecTrain == TrainInit /\ [][TrainNext]_vars

\* C7: when trainer.step() is about to run, the loss that was back-propagated
\* is that of the current minibatch and the gradient of every parameter is
\* the gradient of that loss alone.
C7_StepUsesMinibatchGradient ==
    pc = "backward" =>
        /\ l.acts[1] = x
        /\ Rows(x.v) <= BatchSize
        /\ \A k \in LinearLayers(net) :
              /\ TEq(param[net[k].w].grad, WeightGrad(l.acts[k], GradOut(param, l, k)))
              /\ TEq(param[net[k].b].grad, BiasGrad(GradOut(param, l, k)))

C7_Witness ==
    /\ pc = "backward"
    /\ it.epoch = NumEpochs
    /\ it.remaining = {}
    /\ ~TIsZero(param[Layer(net, 0).w].grad)

----------------------------------------------------------------------------
(* part_000: data manipulation.  A name is bound to an object, an object    *)
(* has a buffer, a shape and a type; two objects may have the same buffer.  *)

Names == {"x", "y", "z", "a", "b"}

Tensor(buf, shape) == [buf |-> buf, shape |-> shape, type |-> "torch.Tensor"]

RECURSIVE Product(_)
Product(s) == IF s = <<>> THEN 1 ELSE Head(s) * Product(Tail(s))

\* x.size(): the torch.Size of the tensor, its shape
Size(o) == o.shape

\* the number of elements of a tensor
Numel(o) == Product(o.shape)

Obj(n) == objs[env[n]]

\* the elements of n, in row-major order
Val(n) == bufs[Obj(n).buf]

\* torch.arange(n)
Arange(n) == SeqOf([k \in 1..n |-> k - 1], n)

\* the literal of y, and its rotations
YLattice == <<2, 1, 4, 3, 1, 2, 3, 4, 4, 3, 2, 1>>

\* the offset of element [i, j] of a matrix of the shape
Flat(shape, i, j) == i * shape[2] + j + 1

\* u + w, elementwise
Plus(u, w) == SeqOf([k \in 1..Len(u) |-> u[k] + w[k]], Len(u))

\* torch.cat((x, y), dim=1) of two matrices of the shape, row-major
Cat1(u, w, shape) ==
    SeqOf([k \in 1..(2 * Len(u)) |->
              LET i == (k - 1) \div (2 * shape[2])
                  j == (k - 1) % (2 * shape[2])
              IN  IF j < shape[2] THEN u[Flat(shape, i, j)]
                  ELSE w[Flat(shape, i, j - shape[2])]],
          2 * Len(u))

TensorInit ==
    /\ pc = "start"
    /\ env = [n \in Names |-> 0]
    /\ objs = <<>>
    /\ bufs = <<>>
    /\ printed = <<>>
    /\ writes = 0
    /\ net = <<>>
    /\ param = <<>>
    /\ x = NoTensor
    /\ l = NoLoss
    /\ TrainIdle

\* x = torch.arange(12); x
ArangeCell ==
    /\ bufs' = Append(bufs, Arange(TensorRows * TensorCols))
    /\ objs' = Append(objs, Tensor(Len(bufs'), <<TensorRows * TensorCols>>))
    /\ env' = [env EXCEPT !["x"] = Len(objs')]
    /\ printed' = <<bufs'[Len(bufs')]>>
    /\ pc' = "arange"

\* x.shape
ShapeCell ==
    /\ printed' = <<Obj("x").shape>>
    /\ pc' = "shape"
    /\ UNCHANGED <<ndvars>>

\* x.size()
SizeCell ==
    /\ printed' = <<Size(Obj("x"))>>
    /\ pc' = "size"
    /\ UNCHANGED <<ndvars>>

\* x = x.reshape((3, 4)); x: a new tensor on the buffer of the old one
ReshapeCell ==
    /\ objs' = Append(objs, Tensor(Obj("x").buf, <<TensorRows, TensorCols>>))
    /\ env' = [env EXCEPT !["x"] = Len(objs')]
    /\ printed' = <<Val("x")>>
    /\ pc' = "reshape"
    /\ UNCHANGED <<bufs>>

\* x = torch.arange(12, dtype=torch.float32).reshape((3,4)); y = torch.tensor([[..]]);
\* torch.cat((x, y), dim=0), torch.cat((x, y), dim=1)
\* faulty variant: the line that binds y is left out
XYCellNoY ==
    /\ bufs' = Append(bufs, Arange(TensorRows * TensorCols))
    /\ objs' = objs \o << Tensor(Len(bufs'), <<TensorRows * TensorCols>>),
                          Tensor(Len(bufs'), <<TensorRows, TensorCols>>) >>
    /\ env' = [env EXCEPT !["x"] = Len(objs')]
    /\ printed' = <<bufs'[Len(bufs')]>>
    /\ pc' = "xy"

XYCell ==
    /\ \E seed \in {0, 4} :
          LET xs == Arange(TensorRows * TensorCols)
              ys == SeqOf(Draw(YLattice, seed, 0, 1, TensorRows * TensorCols)[1],
                          TensorRows * TensorCols)
              shape == <<TensorRows, TensorCols>>
          IN  /\ bufs' = bufs \o <<xs, ys>>
              /\ objs' = objs \o << Tensor(Len(bufs) + 1, <<TensorRows * TensorCols>>),
                                    Tensor(Len(bufs) + 1, shape),
                                    Tensor(Len(bufs) + 2, shape) >>
              /\ env' = [env EXCEPT !["x"] = Len(objs) + 2, !["y"] = Len(objs) + 3]
              /\ printed' = <<xs \o ys, Cat1(xs, ys, shape)>>
    /\ pc' = "xy"

\* x[1, 2] = 9; x
SetItemCell ==
    /\ bufs' = [bufs EXCEPT ![Obj("x").buf][Flat(Obj("x").shape, 1, 2)] = 9]
    /\ printed' = <<bufs'[Obj("x").buf]>>
    /\ pc' = "setitem"
    /\ UNCHANGED <<env, objs>>

\* x[0:2, :] = 12; x
SetSliceCell ==
    /\ bufs' = [bufs EXCEPT ![Obj("x").buf] =
                   SeqOf([k \in 1..Len(@) |-> IF k <= 2 * Obj("x").shape[2] THEN 12 ELSE @[k]],
                         Len(@))]
    /\ printed' = <<bufs'[Obj("x").buf]>>
    /\ pc' = "setslice"
    /\ UNCHANGED <<env, objs>>

\* the names, objects and buffers as one value
Heap == [env |-> env, objs |-> objs, bufs |-> bufs]

\* the elements of n in the heap h
ValIn(h, n) == h.bufs[h.objs[h.env[n]].buf]

\* n = <a new tensor of the values, of the shape>: a new buffer, a new
\* object, and the name bound to it
Bind(h, n, vals, shape) ==
    LET bs == Append(h.bufs, vals)
        os == Append(h.objs, Tensor(Len(bs), shape))
    IN  [env |-> [h.env EXCEPT ![n] = Len(os)], objs |-> os, bufs |-> bs]

\* faulty variant: the values go to a new tensor, and the name is bound to it
WriteFresh(h, n, vals) == Bind(h, n, vals, h.objs[h.env[n]].shape)

\* n[:] = vals and n += ...: the values are written to the buffer of the
\* object n is bound to
WriteInPlace(h, n, vals) ==
    [h EXCEPT !.bufs[h.objs[h.env[n]].buf] = vals]

\* before = id(y); y = y + x; id(y) == before
AddCell ==
    /\ LET h == Bind(Heap, "y", Plus(Val("y"), Val("x")), Obj("y").shape)
       IN  /\ env' = h.env /\ objs' = h.objs /\ bufs' = h.bufs
           /\ printed' = <<h.env["y"] = env["y"]>>
    /\ pc' = "add"

\* z = torch.zeros_like(y); print(id(z)); z[:] = x + y; print(id(z))
ZerosLikeCell ==
    /\ LET h1 == Bind(Heap, "z", SeqOf([k \in 1..Len(Val("y")) |-> 0], Len(Val("y"))),
                      Obj("y").shape)
           h2 == WriteInPlace(h1, "z", Plus(ValIn(h1, "x"), ValIn(h1, "y")))
       IN  /\ env' = h2.env /\ objs' = h2.objs /\ bufs' = h2.bufs
           /\ printed' = <<h1.env["z"], h2.env["z"]>>
    /\ pc' = "zeros_like"

\* before = id(x); x += y; id(x) == before
IAddCell ==
    /\ LET h == WriteInPlace(Heap, "x", Plus(Val("x"), Val("y")))
       IN  /\ env' = h.env /\ objs' = h.objs /\ bufs' = h.bufs
           /\ printed' = <<h.env["x"] = env["x"]>>
    /\ pc' = "iadd"

\* a = x.numpy(); b = torch.tensor(a); type(a), type(b): the array is on the
\* buffer of x, the tensor made of the array has a buffer of its own
ConvertCell ==
    /\ bufs' = Append(bufs, Val("x"))
    /\ objs' = objs \o <<[Tensor(Obj("x").buf, Obj("x").shape) EXCEPT !.type = "numpy.ndarray"],
                         Tensor(Len(bufs'), Obj("x").shape)>>
    /\ env' = [env EXCEPT !["a"] = Len(objs) + 1, !["b"] = Len(objs) + 2]
    /\ printed' = <<objs'[env'["a"]].type, objs'[env'["b"]].type>>
    /\ pc' = "converted"

\* The kernel.  It keeps its names between runs; a cell that reads a name no
\* cell has bound raises NameError and changes nothing.

\* the code cells, in document order
DocOrder ==
    << "arange", "shape", "size", "reshape", "xy", "setitem", "setslice",
       "add", "zeros_like", "iadd", "converted" >>

\* the names a cell reads before it binds them
ReadsOf(c) ==
    IF c \in {"arange", "xy"} THEN {}
    ELSE IF c \in {"add", "zeros_like", "iadd"} THEN {"x", "y"}
    ELSE {"x"}

\* the exception the cell raises in the present state, "" for none
Raises(c) ==
    IF \E n \in ReadsOf(c) : env[n] = 0 THEN "NameError"
    ELSE IF c \in {"setitem", "setslice"} /\ Len(Obj("x").shape) # 2 THEN "IndexError"
    ELSE IF c \in {"add", "zeros_like", "iadd"} /\ Obj("x").shape # Obj("y").shape
         THEN "RuntimeError"
    ELSE ""

RunOf(c) ==
    \/ c = "arange" /\ ArangeCell
    \/ c = "shape" /\ ShapeCell
    \/ c = "size" /\ SizeCell
    \/ c = "reshape" /\ ReshapeCell
    \/ c = "xy" /\ XYCell
    \/ c = "setitem" /\ SetItemCell
    \/ c = "setslice" /\ SetSliceCell
    \/ c = "add" /\ AddCell
    \/ c = "zeros_like" /\ ZerosLikeCell
    \/ c = "iadd" /\ IAddCell
    \/ c = "converted" /\ ConvertCell

\* the kernel runs cell c
Execute(c) ==
    IF Raises(c) = "" THEN RunOf(c)
    ELSE /\ printed' = <<"Traceback", Raises(c), c>>
         /\ pc' = c
         /\ UNCHANGED ndvars

\* the exception the cell run last ended in, "" for none: a traceback is the
\* only output of three parts
Raised == IF Len(printed) = 3 THEN printed[2] ELSE ""

\* the cell below the one run last
NextCell ==
    IF pc = "start" THEN DocOrder[1]
    ELSE LET k == CHOOSE i \in 1..Len(DocOrder) : DocOrder[i] = pc
         IN  IF k < Len(DocOrder) THEN DocOrder[k + 1] ELSE ""

\* the user runs the cell below the one run last
RunNext ==
    /\ NextCell # ""
    /\ Execute(NextCell)
    /\ UNCHANGED <<nnvars, writes, trainvars>>

\* the user picks another cell and runs it
RunOther ==
    /\ writes < MaxJumps
    /\ \E c \in {DocOrder[i] : i \in 1..Len(DocOrder)} \ {NextCell} :
          Execute(c)
    /\ writes' = writes + 1
    /\ UNCHANGED <<nnvars, trainvars>>

\* n[i, j] = 9, for n one of x, a and b
WriteElement ==
    /\ pc = "converted"
    /\ writes < MaxWrites
    /\ \E n \in {"x", "a", "b"}, i \in 0..(TensorRows - 1), j \in 0..(TensorCols - 1) :
          bufs' = [bufs EXCEPT ![Obj(n).buf][Flat(Obj(n).shape, i, j)] = 9]
    /\ writes' = writes + 1
    /\ UNCHANGED <<pc, nnvars, printed, trainvars, env, objs>>

\* the cells are run top to bottom; then elements are written
TensorNext == RunNext \/ WriteElement

SpecTensor == TensorInit /\ [][TensorNext]_vars

\* C8: once a = x.numpy() and b = torch.tensor(a) have run, a step changes
\* the values of at most one of x, a and b.
C8_ConversionDoesNotShare ==
    [][pc = "converted" =>
          Cardinality({n \in {"x", "a", "b"} : Val(n)' # Val(n)}) <= 1]_vars

C8_Witness == pc = "converted" /\ writes > 0 /\ Val("b") # Val("x")

\* C9: x.size() is the number of elements of x, before and after the
\* reshape.
C9_SizeIsElementCount ==
    env["x"] # 0 => Size(Obj("x")) = <<Numel(Obj("x"))>>

C9_Witness == pc = "reshape" /\ Numel(Obj("x")) = TensorRows * TensorCols

----------------------------------------------------------------------------
(* parameters.ipynb: the distribution of my_init.  The draw of uniform_ runs *)
(* through the cells of [-10, 10) once each; the weights my_init leaves are  *)
(* counted by where they fall.                                               *)

\* the class of a weight v / den
ClassOf(v, den) ==
    IF v = 0 THEN "zero"
    ELSE IF 5 * den <= v /\ v <= 10 * den THEN "pos"
    ELSE IF -10 * den <= v /\ v <= -5 * den THEN "neg"
    ELSE "other"

\* how many entries of t are of class c
CountOf(t, c) ==
    Cardinality({ij \in (1..Rows(t.v)) \X (1..Cols(t.v)) :
                    ClassOf(t.v[ij[1]][ij[2]], t.den) = c})

\* the tally, with the weights of the Linear layers of n added
TallyOf(tally, n, P) ==
    LET ws == SeqOf([k \in 1..Len(n) |-> IF n[k].kind = "Linear" THEN n[k].w ELSE 0], Len(n))
        Count(c) == SumSeq([k \in 1..Len(n) |->
                               IF ws[k] = 0 THEN 0 ELSE CountOf(P[ws[k]].data, c)])
    IN  [zero |-> tally.zero + Count("zero"),
         pos |-> tally.pos + Count("pos"),
         neg |-> tally.neg + Count("neg"),
         other |-> tally.other + Count("other")]

\* the number of cells of uniform_(m.weight, -10, 10)
NumCells == Len(UniformLattice(-10, 10))

DistInit ==
    /\ \E s0, s2 \in Seeds(DefaultLattice), sx \in Seeds(RandnLattice) :
          /\ param = MLPParams(s0, s2)
          /\ x = Randn(sx, BatchRows, InDim)
    /\ net = MLPLayers
    /\ pc = "cell12"
    /\ l = NoLoss
    /\ writes = 0
    /\ printed = <<[zero |-> 0, pos |-> 0, neg |-> 0, other |-> 0]>>
    /\ TrainIdle
    /\ NdIdle

\* net.apply(my_init), with the next cell of the draw
SampleMyInit ==
    /\ pc \in {"cell12", "cell13"}
    /\ writes < NumCells
    /\ param' = ApplyAll("my_init", net, param, [k \in 1..Len(net) |-> writes])
    /\ printed' = <<TallyOf(printed[1], net, param')>>
    /\ writes' = writes + 1
    /\ pc' = "cell13"
    /\ UNCHANGED <<net, x, l, trainvars, ndvars>>

SpecDist == DistInit /\ [][SampleMyInit]_vars

\* C11: over the whole of the draw of uniform_(m.weight, -10, 10), my_init
\* leaves 0 in half of the cases, a value of [5, 10] in a quarter and a value
\* of [-10, -5] in a quarter, and nothing else.
C11_MyInitDistribution ==
    writes = NumCells =>
        LET t == printed[1]
            total == t.zero + t.pos + t.neg + t.other
        IN  /\ 2 * t.zero = total
            /\ 4 * t.pos = total
            /\ 4 * t.neg = total

C11_Witness ==
    /\ pc = "cell13"
    /\ writes = NumCells
    /\ printed[1].zero > 0
    /\ printed[1].pos > 0
    /\ printed[1].neg > 0

----------------------------------------------------------------------------
\* the objects on the buffer of the object n is bound to
SameTensor(n) == {o \in 1..Len(objs) : objs[o].buf = Obj(n).buf}

\* C12: z[:] = x + y leaves id(z) what it was after zeros_like and z holds
\* x + y; x += y leaves id(x) what it was, and every object on the memory of
\* x is the object it was and holds the new values.
C12_InPlaceKeepsObject ==
    [][/\ (pc = "add" /\ pc' = "zeros_like") =>
             /\ printed'[1] = printed'[2]
             /\ env'["z"] = printed'[1]
             /\ Val("z")' = Plus(Val("x"), Val("y"))
       /\ (pc = "zeros_like" /\ pc' = "iadd") =>
             /\ env'["x"] = env["x"]
             /\ printed' = <<TRUE>>
             /\ \A o \in SameTensor("x") :
                   /\ objs'[o] = objs[o]
                   /\ bufs'[objs'[o].buf] = Plus(Val("x"), Val("y"))
      ]_vars

C12_Witness ==
    /\ pc = "iadd"
    /\ printed = <<TRUE>>
    /\ Cardinality(SameTensor("x")) > 1
    /\ env["z"] \notin SameTensor("x")
    /\ Val("z") = Val("x")
    /\ Val("x") # Val("y")

----------------------------------------------------------------------------
(* part_000: data manipulation, with the cells run in an order the user     *)
(* picks.                                                                   *)

AnyOrderNext == RunNext \/ RunOther

SpecAnyOrder == TensorInit /\ [][AnyOrderNext]_vars

\* C13 as claimed: no run of a cell, in whatever order, ends in an
\* undefined-name error, and x.size() gives what it gives in document order.
C13_CellsStandalone ==
    /\ Raised # "NameError"
    /\ (pc = "size" /\ Raised = "") => printed = << <<TensorRows * TensorCols>> >>

\* C13, amended: with the cells run in document order, from the first one
\* on, no cell raises an exception: every name a cell reads has been bound
\* by a cell above it.
C13_DocumentOrderRuns ==
    writes = 0 =>
        /\ Raised = ""
        /\ pc # "start" => \A n \in ReadsOf(pc) : env[n] # 0

C13_Witness ==
    /\ writes = 0
    /\ pc = "converted"
    /\ \A n \in Names : env[n] # 0

====
